---- MODULE Spec2Model ----
(***************************************************************************)
(* The extended fuzzer page (Fuzzer.tsx) of graphql-sniper as a state      *)
(* machine over the browser's event loop.  Texts are sequences of          *)
(* one-character strings.  Every user event, network completion and timer  *)
(* is a macrotask; the continuation of an async function after a settled   *)
(* await is a microtask, and no macrotask runs while a microtask is due.   *)
(***************************************************************************)
EXTENDS Integers, Sequences, FiniteSets, TLC

\* ------------------------------------------------------------------ bounds
MaxRuns == 3          \* Start clicks explored in one behaviour
MaxThreads == 2       \* largest value typed into "Concurrent Threads"
MaxFaults == 1        \* requests answered by a failure in one behaviour
MaxBasicRequests == 3 \* requests of the basic fuzzer's endless loop that get an answer
MaxFormRuns == 1      \* Start clicks explored while the form is being edited
MaxHeaderLines == 3   \* lines of a raw header text
MaxReads == 1         \* wordlist files being read at one time
MaxProxyRequests == 2 \* requests the proxy receives
MaxWordLen == 3       \* characters of a word given to addWord
MaxProviders == 2     \* FuzzerProvider instances mounted
MaxConsumers == 2     \* components calling useFuzzerConfig

\* ------------------------------------------------------------ input values
NL == "\n"
TargetUrl == <<"h", "t", "t", "p", ":", "/", "/", "t">>
DefaultProxyUrl == <<"h", "t", "t", "p", ":", "/", "/", "p">>
Urls == {<<>>, TargetUrl}
\* "a", " b " and "c" on three lines; and a text of blank lines only
WordsText == <<"a", NL, " ", "b", " ", "\r", NL, "c">>
BlankText == <<" ", NL, "\r", NL>>
WordlistTexts == {<<>>, BlankText, WordsText}
BaseQuery == <<"{", "u", "}">>
EmptyObjectText == <<"{", "}">>
BadJsonText == <<"{", "b">>
VariablesTexts == {<<>>, EmptyObjectText, BadJsonText}
DelayChoices == {0, 50}
Selections == {<<1, 2>>}
\* no marker, or the selection "u" of BaseQuery marked
Markers == {<<>>, <<[text |-> <<"u">>, from |-> 1, to |-> 2]>>}

VARIABLES
    url, wordlistText, variables, useProxy, proxyUrl, query,
    replacementMarker, selectedText, selectionRange,
    threads, delayMs,
    isRunning, results, progressCount, activeTab,
    abortControllerRef, requestCountRef,
    aborted,      \* the AbortControllers whose signal has fired
    runs,         \* one record per call of startFuzzing that got past the checks
    page,         \* which Fuzzer component is mounted: "basic" or "extended"
    faults,       \* how many requests the network has failed so far
    runLimit      \* how many Start clicks this behaviour explores

config == <<url, wordlistText, variables, useProxy, proxyUrl, query>>
marking == <<replacementMarker, selectedText, selectionRange>>
perf == <<threads, delayMs>>
display == <<isRunning, results, progressCount, activeTab>>
refs == <<abortControllerRef, requestCountRef>>
env == <<page, faults, runLimit>>

\* The header block of a request form and what the page makes of it.
VARIABLES
    headersRaw,   \* the raw header text
    copy,         \* the module whose parser is applied to it
    hpc,          \* "raw", "parsed" or "merged"
    headersUser,  \* parseRawHeaders(headersRaw)
    headers       \* mergeDefaultJsonContentType(headersUser)

headerVars == <<headersRaw, copy, hpc, headersUser, headers>>

\* The request workbench (GraphQLPage.tsx) and its session wordlist.
VARIABLES
    pageUrl, pageQuery, pageVariables,   \* the form of the workbench
    sending,      \* the Send button shows "Sending..."
    wordSet,      \* the session wordlist, a set of tokens
    sendCall,     \* the call of onSend in flight, with what it closed over
    reads         \* the FileReaders of onImportWordlist still reading

workbenchVars == <<pageUrl, pageQuery, pageVariables, sending, wordSet, sendCall, reads>>

fuzzerVars == <<config, marking, perf, display, refs, aborted, runs, env>>

\* The state of the other programs of the repository.
\* The forwarding proxy: which of the two server files runs, and the requests
\* it has received, each with its replies and its outbound request.
VARIABLES serverFile, exchanges
proxyVars == <<serverFile, exchanges>>

\* One call of addWord: its argument, the set it is given, whether it ran.
VARIABLES addedWord, tokenSet, added
tokenVars == <<addedWord, tokenSet, added>>

\* FuzzerContext: the config state of each mounted FuzzerProvider, the
\* providers setConfig was called on, the last call of setConfig, and for each
\* consumer its provider and the config useFuzzerConfig gave its last render.
VARIABLES providerConfig, touched, lastSet, consumers
contextVars == <<providerConfig, touched, lastSet, consumers>>

aside == <<headerVars, workbenchVars, proxyVars, tokenVars, contextVars>>
besideHeaders == <<fuzzerVars, workbenchVars, proxyVars, tokenVars, contextVars>>
besideWorkbench == <<fuzzerVars, headerVars, proxyVars, tokenVars, contextVars>>
besideProxy == <<fuzzerVars, headerVars, workbenchVars, tokenVars, contextVars>>
besideTokens == <<fuzzerVars, headerVars, workbenchVars, proxyVars, contextVars>>
besideContext == <<fuzzerVars, headerVars, workbenchVars, proxyVars, tokenVars>>
vars == <<config, marking, perf, display, refs, aborted, runs, env, aside>>

\* No header text has been entered.
HeadersIdle ==
    /\ headersRaw = <<>>
    /\ copy = "extended"
    /\ hpc = "raw"
    /\ headersUser = <<>>
    /\ headers = <<>>

\* The workbench as it mounts.
WorkbenchMounted ==
    /\ pageVariables = [ok |-> TRUE, words |-> <<>>]
    /\ sending = FALSE
    /\ wordSet = {}
    /\ sendCall = <<>>
    /\ reads = <<>>

WorkbenchIdle ==
    /\ WorkbenchMounted
    /\ pageUrl = <<>>
    /\ pageQuery = [ok |-> FALSE, names |-> <<>>]

ProxyIdle == serverFile = "proxy.mjs" /\ exchanges = <<>>
TokensIdle == addedWord = <<>> /\ tokenSet = {} /\ added = FALSE
ContextIdle ==
    /\ providerConfig = <<>>
    /\ touched = {}
    /\ lastSet = <<>>
    /\ consumers = <<>>

AsideIdle == HeadersIdle /\ WorkbenchIdle /\ ProxyIdle /\ TokensIdle /\ ContextIdle

\* --------------------------------------------------------- pure functions
Min(a, b) == IF a < b THEN a ELSE b

IsSpace(c) == c \in {" ", "\r", NL, "\t"}

RECURSIVE TrimStart(_)
TrimStart(s) ==
    IF s # <<>> /\ IsSpace(Head(s)) THEN TrimStart(Tail(s)) ELSE s

RECURSIVE TrimEnd(_)
TrimEnd(s) ==
    IF s # <<>> /\ IsSpace(s[Len(s)]) THEN TrimEnd(SubSeq(s, 1, Len(s) - 1)) ELSE s

Trim(s) == TrimEnd(TrimStart(s))

\* text.split(/\r?\n/): the lines of a text, a "\r" before the "\n" dropped
RECURSIVE SplitLinesFrom(_, _)
SplitLinesFrom(s, cur) ==
    IF s = <<>> THEN <<cur>>
    ELSE IF Head(s) = NL
         THEN <<IF cur # <<>> /\ cur[Len(cur)] = "\r"
                THEN SubSeq(cur, 1, Len(cur) - 1) ELSE cur>>
              \o SplitLinesFrom(Tail(s), <<>>)
         ELSE SplitLinesFrom(Tail(s), Append(cur, Head(s)))

SplitLines(s) == SplitLinesFrom(s, <<>>)

parseWordlist(text) ==
    LET trimmed == [k \in 1..Len(SplitLines(text)) |-> Trim(SplitLines(text)[k])]
    IN  SelectSeq(trimmed, LAMBDA line : Len(line) > 0)

\* (mutant) a splice that leaves the marked text in place
replaceTextAfterMarker(q, marker, replacement) ==
    SubSeq(q, 1, Min(marker.to, Len(q))) \o replacement
        \o SubSeq(q, Min(marker.to, Len(q)) + 1, Len(q))

replaceTextInQuery(q, marker, replacement) ==
    SubSeq(q, 1, Min(marker.from, Len(q))) \o replacement
        \o SubSeq(q, Min(marker.to, Len(q)) + 1, Len(q))

\* JSON.parse(variables || '{}') on the texts of VariablesTexts: the parsed
\* value (as text), or a SyntaxError
JsonParseVariables(text) ==
    LET t == IF text = <<>> THEN EmptyObjectText ELSE text
    IN  IF t = EmptyObjectText
        THEN [ok |-> TRUE, value |-> EmptyObjectText]
        ELSE [ok |-> FALSE, value |-> <<>>]

\* ------------------------------------------------------- sendSingleRequest
NoController == 0

\* What sendSingleRequest does before its first await, for the values its
\* closure captured (c): the request is "inflight" once fetch was called,
\* "threw" when JSON.parse threw before any fetch.
sendSingleRequest(c, requestNum, wordlistItem) ==
    LET currentQuery ==
            IF c.replacementMarker # <<>>
            THEN replaceTextInQuery(c.query, c.replacementMarker[1], wordlistItem)
            ELSE c.query
        parsed == JsonParseVariables(c.variables)
    IN  IF parsed.ok
        THEN [requestNum |-> requestNum, wordlistItem |-> wordlistItem,
              state |-> "inflight",
              fetchUrl |-> IF c.useProxy THEN c.proxyUrl ELSE c.url,
              requestBody |-> <<[query |-> currentQuery, variables |-> parsed.value]>>]
        ELSE [requestNum |-> requestNum, wordlistItem |-> wordlistItem,
              state |-> "threw", fetchUrl |-> <<>>, requestBody |-> <<>>]

\* sendSingleRequest of the basic fuzzer: the raw body is sent as it is, so
\* nothing can throw before fetch is called.
sendSingleRequestBasic(c, requestNum) ==
    [requestNum |-> requestNum, wordlistItem |-> <<>>, state |-> "inflight",
     fetchUrl |-> IF c.useProxy THEN c.proxyUrl ELSE c.url,
     requestBody |-> <<>>]

\* The outcomes fetch and the body read can have for a request in flight.
Outcomes(c) == IF c.useProxy THEN {"ok", "proxyerr", "neterr"} ELSE {"ok", "neterr"}

\* (mutant) a catch block that turns AbortError into a result row as well
RethrowsNothing(req) == FALSE

\* The catch block of sendSingleRequest: TRUE when the settled request rejects
\* the promise (AbortError is rethrown), FALSE when a FuzzResult is returned.
Rethrows(req) == req.state = "aborted"

\* The FuzzResult a settled request returns (timeMs, responseBody and
\* responseHeaders are left out; run is the startFuzzing call it belongs to).
FuzzResult(req, r) ==
    [requestNum |-> req.requestNum,
     wordlistItem |-> req.wordlistItem,
     run |-> r,
     statusCode |->
        CASE req.state = "ok" -> "200"
          [] req.state = "proxyerr" -> "Proxy Error: Connection refused"
          [] req.state = "neterr" -> "Error: Failed to fetch"
          [] req.state = "threw" -> "Error: Unexpected token"
          [] OTHER -> "Error: The operation was aborted",
     contentLength |-> IF req.state = "ok" THEN "2" ELSE "0",
     requestBody |-> IF req.state \in {"ok", "proxyerr"} THEN req.requestBody ELSE <<>>]

\* ------------------------------------------------------------ event loop
\* (mutant) a loop that goes on as soon as one request of the batch settled
ResumableOnFirst(run) ==
    /\ run.pc = "await"
    /\ \E k \in 1..Len(run.reqs) : run.reqs[k].state # "inflight"

Resumable(run) ==
    /\ run.pc = "await"
    /\ \A k \in 1..Len(run.reqs) : run.reqs[k].state # "inflight"

\* A macrotask (click, network event, timer) runs only when no microtask is due.
NoMicrotask == \A r \in 1..Len(runs) : ~Resumable(runs[r])

\* The state a render's startFuzzing and sendSingleRequest close over.
Closure ==
    [url |-> url, variables |-> variables, useProxy |-> useProxy,
     proxyUrl |-> proxyUrl, query |-> query, replacementMarker |-> replacementMarker]

\* What is left of a call of startFuzzing once its finally block has run.
Finished(run) ==
    [run EXCEPT !.pc = "done", !.reqs = <<>>, !.resultMap = {}, !.processedCount = 0,
                !.i = 0, !.calls = <<>>, !.wordlist = <<>>, !.threads = 1,
                !.delayMs = 0, !.c = <<>>]

NewRun(wordlist) ==
    [page |-> page, controller |-> Len(runs) + 1, wordlist |-> wordlist,
     threads |-> threads, delayMs |-> delayMs, c |-> Closure, pc |-> "start",
     i |-> 0, reqs |-> <<>>, resultMap |-> {}, processedCount |-> 0, calls |-> <<>>]

\* What run.calls keeps of a call of sendSingleRequest.
Call(req) == [requestNum |-> req.requestNum, wordlistItem |-> req.wordlistItem]

\* (mutant) a slice that is one item too long
BatchSizeOneMore(run) == Min(run.threads + 1, Len(run.wordlist) - run.i)

\* The length of wordlist.slice(i, i + threads).
BatchSize(run) == Min(run.threads, Len(run.wordlist) - run.i)

\* The head of the sequential loop, with run.i words already taken:
\* [done, run, count] after running up to the next await or to the loop's exit.
SequentialLoop(run, count, signalAborted) ==
    IF run.i >= Len(run.wordlist) \/ signalAborted
    THEN [done |-> TRUE, run |-> Finished(run), count |-> count]
    ELSE LET req == sendSingleRequest(run.c, count + 1, run.wordlist[run.i + 1])
         IN  [done |-> FALSE,
              run |-> [run EXCEPT !.pc = "await", !.i = run.i + 1, !.reqs = <<req>>,
                                  !.calls = Append(run.calls, <<Call(req)>>)],
              count |-> count + 1]

\* The head of the batch loop, for (let i = run.i; i < wordlist.length; ...).
BatchLoop(run, count, signalAborted) ==
    IF run.i >= Len(run.wordlist) \/ signalAborted
    THEN [done |-> TRUE, run |-> Finished(run), count |-> count]
    ELSE LET batch == [b \in 1..BatchSize(run) |->
                         sendSingleRequest(run.c, run.i + b, run.wordlist[run.i + b])]
         IN  [done |-> FALSE,
              run |-> [run EXCEPT !.pc = "await", !.reqs = batch,
                                  !.calls = Append(run.calls,
                                                   [b \in 1..Len(batch) |-> Call(batch[b])])],
              count |-> count]

\* The head of the basic fuzzer's loop, while (!controller.signal.aborted).
BasicLoop(run, count, signalAborted) ==
    IF signalAborted
    THEN [done |-> TRUE, run |-> Finished(run), count |-> count]
    ELSE LET req == sendSingleRequestBasic(run.c, count + 1)
         IN  [done |-> FALSE,
              run |-> [run EXCEPT !.pc = "await", !.i = run.i + 1, !.reqs = <<req>>,
                                  !.calls = Append(run.calls, <<Call(req)>>)],
              count |-> count + 1]

Loop(run, count, signalAborted) ==
    IF run.page = "basic" THEN BasicLoop(run, count, signalAborted)
    ELSE IF run.threads = 1 THEN SequentialLoop(run, count, signalAborted)
    ELSE BatchLoop(run, count, signalAborted)

\* (mutant) a startFuzzing without its finally block
ContinueWithoutFinally(r, next) ==
    /\ runs' = [runs EXCEPT ![r] = next.run]
    /\ requestCountRef' = next.count
    /\ UNCHANGED <<isRunning, abortControllerRef>>

\* The loop went on to `next`; the finally block runs when it has exited.
Continue(r, next) ==
    /\ runs' = [runs EXCEPT ![r] = next.run]
    /\ requestCountRef' = next.count
    /\ IF next.done
       THEN isRunning' = FALSE /\ abortControllerRef' = NoController
       ELSE UNCHANGED <<isRunning, abortControllerRef>>

\* ------------------------------------------------------------------ Init
\* The component mounts with the values of the shared config (the context's
\* defaults, or what the workbench handed over) and its own initial state.
\* The form as the component mounts it: url, query, variables and the proxy
\* settings come from the shared config (its defaults or what the workbench
\* handed over), the rest from the useState initial values.
Mounted ==
    /\ url \in Urls
    /\ useProxy \in BOOLEAN
    /\ proxyUrl = DefaultProxyUrl
    /\ query = BaseQuery
    /\ isRunning = FALSE
    /\ results = <<>>
    /\ progressCount = 0
    /\ activeTab = "config"
    /\ abortControllerRef = NoController
    /\ requestCountRef = 0
    /\ aborted = {}
    /\ runs = <<>>
    /\ faults = 0

Untouched ==
    /\ wordlistText = <<>>
    /\ replacementMarker = <<>>
    /\ selectedText = <<>>
    /\ selectionRange = <<>>
    /\ threads = 1
    /\ delayMs = 0

\* Either page, before the first Start, with the form filled in: the texts,
\* the marker and the performance settings do not change once runs start.
Init ==
    /\ Mounted
    /\ AsideIdle
    /\ runLimit = MaxRuns
    /\ page \in {"basic", "extended"}
    /\ IF page = "basic"
       THEN variables = EmptyObjectText /\ Untouched
       ELSE /\ variables \in VariablesTexts
            /\ wordlistText \in WordlistTexts
            /\ threads \in 1..MaxThreads
            /\ delayMs \in DelayChoices
            /\ \E m \in Markers :
                  /\ replacementMarker = m
                  /\ selectedText = IF m = <<>> THEN <<>> ELSE m[1].text
                  /\ selectionRange = IF m = <<>> THEN <<>>
                                      ELSE <<[from |-> m[1].from, to |-> m[1].to]>>

\* The extended page as it mounts, for the behaviours that edit the form.
InitForm ==
    /\ Mounted
    /\ AsideIdle
    /\ runLimit = MaxFormRuns
    /\ page = "extended"
    /\ variables \in VariablesTexts
    /\ Untouched

\* ------------------------------------------------------------ form edits
\* (url, variables and the proxy checkbox keep the value the page mounted with)
SetWordlistText(t) ==
    /\ NoMicrotask
    /\ wordlistText' = t
    /\ UNCHANGED <<url, variables, useProxy, proxyUrl, query,
                   marking, perf, display, refs, aborted, runs, env, aside>>

\* The two number inputs are disabled while isRunning.
SetThreads(n) ==
    /\ NoMicrotask
    /\ ~isRunning
    /\ threads' = n
    /\ UNCHANGED <<config, marking, delayMs, display, refs, aborted, runs, env, aside>>

SetDelayMs(d) ==
    /\ NoMicrotask
    /\ ~isRunning
    /\ delayMs' = d
    /\ UNCHANGED <<config, marking, threads, display, refs, aborted, runs, env, aside>>

\* The editor reports the main selection [from, to) of the query text.
handleQuerySelection(from, to) ==
    /\ NoMicrotask
    /\ from <= to /\ to <= Len(query)
    /\ LET text == SubSeq(query, from + 1, to)
       IN  IF text # <<>>
           THEN /\ selectedText' = text
                /\ selectionRange' = <<[from |-> from, to |-> to]>>
           ELSE /\ selectedText' = <<>>
                /\ selectionRange' = <<>>
    /\ UNCHANGED <<config, replacementMarker, perf, display, refs, aborted, runs, env, aside>>

\* The Mark button is disabled without a selection or with a marker set.
markForReplacement ==
    /\ NoMicrotask
    /\ selectedText # <<>> /\ replacementMarker = <<>>
    /\ IF selectionRange # <<>> /\ selectedText # <<>>
       THEN replacementMarker' = <<[text |-> selectedText,
                                    from |-> selectionRange[1].from,
                                    to |-> selectionRange[1].to]>>
       ELSE UNCHANGED replacementMarker
    /\ UNCHANGED <<config, selectedText, selectionRange, perf, display, refs,
                   aborted, runs, env, aside>>

\* The Clear button is rendered only while a marker is set.
clearMarker ==
    /\ NoMicrotask
    /\ replacementMarker # <<>>
    /\ replacementMarker' = <<>>
    /\ selectedText' = <<>>
    /\ selectionRange' = <<>>
    /\ UNCHANGED <<config, perf, display, refs, aborted, runs, env, aside>>

\* ------------------------------------------------------- Start and Stop
\* (mutant) a Start button that does not look at the target URL
StartEnabledWithoutUrl ==
    /\ ~isRunning
    /\ Len(parseWordlist(wordlistText)) # 0
    /\ replacementMarker # <<>>

\* disabled={isRunning || !url || wordlistLines === 0 || !replacementMarker}
StartEnabled ==
    /\ ~isRunning
    /\ url # <<>>
    /\ Len(parseWordlist(wordlistText)) # 0
    /\ replacementMarker # <<>>

\* A click on Start Fuzzing: startFuzzing up to its first await.
startFuzzing ==
    /\ page = "extended"
    /\ NoMicrotask
    /\ StartEnabled
    /\ Len(runs) < runLimit
    /\ LET wordlist == parseWordlist(wordlistText)
           r == Len(runs) + 1
           next == Loop(NewRun(wordlist), 0, FALSE)
       IN  IF Len(wordlist) = 0 \/ replacementMarker = <<>>
           THEN UNCHANGED <<display, refs, runs>>
           ELSE /\ results' = <<>>
                /\ progressCount' = 0
                /\ activeTab' = "results"
                /\ runs' = Append(runs, next.run)
                /\ requestCountRef' = next.count
                /\ IF next.done
                   THEN isRunning' = FALSE /\ abortControllerRef' = NoController
                   ELSE isRunning' = TRUE /\ abortControllerRef' = r
    /\ UNCHANGED <<config, marking, perf, aborted, env, aside>>

\* The basic fuzzer's button: disabled={isRunning || !url}
StartEnabledBasic == ~isRunning /\ url # <<>>

\* A click on Start Fuzzing of the basic fuzzer, up to its first await.
startFuzzingBasic ==
    /\ page = "basic"
    /\ NoMicrotask
    /\ StartEnabledBasic
    /\ Len(runs) < runLimit
    /\ LET r == Len(runs) + 1
           next == Loop(NewRun(<<>>), 0, FALSE)
       IN  /\ isRunning' = TRUE
           /\ results' = <<>>
           /\ requestCountRef' = next.count
           /\ abortControllerRef' = r
           /\ runs' = Append(runs, next.run)
    /\ UNCHANGED <<config, marking, perf, progressCount, activeTab, aborted, env, aside>>

\* (mutant) an abort that does not reach the requests in flight
AbortRequestsNone(run, controller) == run

\* controller.abort(): every fetch and body read that carries the signal
\* rejects with AbortError.
AbortRequests(run, controller) ==
    IF run.controller = controller
    THEN [run EXCEPT !.reqs = [k \in 1..Len(run.reqs) |->
                                 IF run.reqs[k].state = "inflight"
                                 THEN [run.reqs[k] EXCEPT !.state = "aborted"]
                                 ELSE run.reqs[k]]]
    ELSE run

\* A click on Stop Fuzzing (disabled={!isRunning}).
stopFuzzing ==
    /\ NoMicrotask
    /\ isRunning
    /\ IF abortControllerRef # NoController
       THEN /\ aborted' = aborted \cup {abortControllerRef}
            /\ runs' = [r \in 1..Len(runs) |-> AbortRequests(runs[r], abortControllerRef)]
       ELSE UNCHANGED <<aborted, runs>>
    /\ isRunning' = FALSE
    /\ UNCHANGED <<config, marking, perf, results, progressCount, activeTab, refs, env, aside>>

\* --------------------------------------------------- network and timers
\* The fetch (and the read of its body) of request k of run r completes.
Respond(r, k, outcome) ==
    /\ NoMicrotask
    /\ r \in 1..Len(runs)
    /\ k \in 1..Len(runs[r].reqs)
    /\ runs[r].reqs[k].state = "inflight"
    /\ outcome \in Outcomes(runs[r].c)
    /\ runs[r].page = "basic" => runs[r].reqs[k].requestNum <= MaxBasicRequests
    /\ outcome # "ok" => faults < MaxFaults
    /\ faults' = IF outcome = "ok" THEN faults ELSE faults + 1
    /\ runs' = [runs EXCEPT ![r].reqs[k].state = outcome]
    /\ UNCHANGED <<config, marking, perf, display, refs, aborted, page, runLimit, aside>>

\* for (let j = 1; j <= processedCount; j++) { resultMap.get(j) ... }
RECURSIVE OrderedResults(_, _, _)
OrderedResults(resultMap, j, processedCount) ==
    IF j > processedCount THEN <<>>
    ELSE (IF \E row \in resultMap : row.requestNum = j
          THEN <<CHOOSE row \in resultMap : row.requestNum = j>>
          ELSE <<>>) \o OrderedResults(resultMap, j + 1, processedCount)

\* startFuzzing resumes after `await sendSingleRequest(...)` (threads = 1).
ResumeSequential(r) ==
    LET run == runs[r]
        req == run.reqs[1]
    IN  IF Rethrows(req)
        THEN /\ Continue(r, [done |-> TRUE, count |-> requestCountRef,
                             run |-> Finished(run)])
             /\ UNCHANGED <<results, progressCount>>
        ELSE /\ results' = Append(results, FuzzResult(req, r))
             /\ progressCount' = IF run.page = "basic" THEN progressCount
                                 ELSE progressCount + 1
             /\ IF run.page # "basic" /\ run.delayMs > 0
                   /\ requestCountRef < Len(run.wordlist)
                THEN Continue(r, [done |-> FALSE, count |-> requestCountRef,
                                  run |-> [run EXCEPT !.pc = "delay", !.reqs = <<>>]])
                ELSE Continue(r, Loop(run, requestCountRef, run.controller \in aborted))

\* startFuzzing resumes after `await Promise.allSettled(batchPromises)`.
ResumeBatch(r) ==
    LET run == runs[r]
        fulfilled == {k \in 1..Len(run.reqs) : ~Rethrows(run.reqs[k])}
        resultMap == {row \in run.resultMap :
                         \A k \in fulfilled : row.requestNum # run.reqs[k].requestNum}
                     \cup {FuzzResult(run.reqs[k], r) : k \in fulfilled}
        processedCount == run.processedCount + Cardinality(fulfilled)
        run1 == [run EXCEPT !.resultMap = resultMap, !.processedCount = processedCount,
                            !.i = run.i + run.threads, !.reqs = <<>>]
    IN  /\ results' = OrderedResults(resultMap, 1, processedCount)
        /\ progressCount' = processedCount
        /\ IF run.delayMs > 0 /\ run.i + run.threads < Len(run.wordlist)
           THEN Continue(r, [done |-> FALSE, count |-> requestCountRef,
                             run |-> [run1 EXCEPT !.pc = "delay"]])
           ELSE Continue(r, Loop(run1, requestCountRef, run.controller \in aborted))

\* The microtask that resumes the loop of run r once what it awaits settled.
Resume(r) ==
    /\ r \in 1..Len(runs)
    /\ Resumable(runs[r])
    /\ IF runs[r].page = "basic" \/ runs[r].threads = 1
       THEN ResumeSequential(r) ELSE ResumeBatch(r)
    /\ UNCHANGED <<config, marking, perf, activeTab, aborted, env, aside>>

\* The setTimeout of the delay of run r fires and the loop goes on.
DelayElapsed(r) ==
    /\ NoMicrotask
    /\ r \in 1..Len(runs)
    /\ runs[r].pc = "delay"
    /\ Continue(r, Loop(runs[r], requestCountRef, runs[r].controller \in aborted))
    /\ UNCHANGED <<config, marking, perf, results, progressCount, activeTab, aborted, env, aside>>

\* Clicks, network events, timers and microtasks of either page.
Next ==
    \/ startFuzzing
    \/ startFuzzingBasic
    \/ stopFuzzing
    \/ \E r \in 1..MaxRuns, k \in 1..MaxThreads, o \in {"ok", "proxyerr", "neterr"} :
          Respond(r, k, o)
    \/ \E r \in 1..MaxRuns : Resume(r)
    \/ \E r \in 1..MaxRuns : DelayElapsed(r)

Spec == Init /\ [][Next]_vars

\* The same behaviours under the scheduling of the browser: a microtask that
\* is due runs, a timer that was set fires, and every request in flight
\* settles.
SpecLive ==
    /\ Init
    /\ [][Next]_vars
    /\ WF_vars(\E r \in 1..MaxRuns : Resume(r))
    /\ WF_vars(\E r \in 1..MaxRuns : DelayElapsed(r))
    /\ WF_vars(\E r \in 1..MaxRuns, k \in 1..MaxThreads : Respond(r, k, "ok"))

\* The extended page with its form being edited between and during runs.
NextForm ==
    \/ \E t \in WordlistTexts : SetWordlistText(t)
    \/ \E n \in 1..MaxThreads : SetThreads(n)
    \/ \E d \in DelayChoices : SetDelayMs(d)
    \/ \E s \in Selections : handleQuerySelection(s[1], s[2])
    \/ markForReplacement
    \/ clearMarker
    \/ startFuzzing
    \/ stopFuzzing
    \/ \E r \in 1..MaxFormRuns, k \in 1..MaxThreads, o \in {"ok", "proxyerr", "neterr"} :
          Respond(r, k, o)
    \/ \E r \in 1..MaxFormRuns : Resume(r)
    \/ \E r \in 1..MaxFormRuns : DelayElapsed(r)

SpecForm == InitForm /\ [][NextForm]_vars

\* The extended page with its query being edited, selected and marked.
EditedQueries == {BaseQuery, <<"{", "a", "u", "}">>, <<"{", "}">>, <<>>}

InitEdit ==
    /\ Mounted
    /\ AsideIdle
    /\ runLimit = 0
    /\ page = "extended"
    /\ variables = EmptyObjectText
    /\ Untouched

\* An edit in the query editor: onChange sets the query, and the update
\* listener reports the selection [from, to) the editor has after the edit.
SetQuery(v, from, to) ==
    /\ NoMicrotask
    /\ v # query
    /\ from <= to /\ to <= Len(v)
    /\ query' = v
    /\ LET text == SubSeq(v, from + 1, to)
       IN  IF text # <<>>
           THEN /\ selectedText' = text
                /\ selectionRange' = <<[from |-> from, to |-> to]>>
           ELSE /\ selectedText' = <<>>
                /\ selectionRange' = <<>>
    /\ UNCHANGED <<url, wordlistText, variables, useProxy, proxyUrl, replacementMarker,
                   perf, display, refs, aborted, runs, env, aside>>

NextEdit ==
    \/ \E v \in EditedQueries : \E from \in 0..Len(v), to \in 0..Len(v) :
          SetQuery(v, from, to)
    \/ \E from \in 0..Len(query), to \in 0..Len(query) : handleQuerySelection(from, to)
    \/ markForReplacement
    \/ clearMarker

SpecEdit == InitEdit /\ [][NextEdit]_vars

\* ========================================================= header block
\* A header text is a sequence of tokens: a line break, a blank, a colon, or
\* a run of other characters that the parser never looks into.
HeaderLines ==
    { <<>>,
      <<"X-A", ":", " ", "v">>,
      <<"X-A", ":", "w", ":", "v", "\r">>,
      <<"X-A">>,
      <<" ", ":", "v">>,
      <<"POST", " ", "/">>,
      <<"POST", ":", "v">>,
      <<"Content-Length", ":", " ", "5">>,
      <<" ", "content-length", " ", ":", "5", " ">>,
      <<"Content-Type", ":", "v">>,
      <<"content-type", ":", "w">> }

RECURSIVE HeaderTextsOf(_)
HeaderTextsOf(n) ==
    IF n <= 1 THEN HeaderLines
    ELSE HeaderTextsOf(n - 1)
            \cup {t \o <<NL>> \o l : t \in HeaderTextsOf(n - 1), l \in HeaderLines}

HeaderTexts == HeaderTextsOf(MaxHeaderLines)

HeaderCopies == {"workbench", "page", "basic", "extended"}

\* String.prototype.toLowerCase on a token
LowerToken(tok) ==
    CASE tok \in {"Content-Length", "content-length"} -> "content-length"
      [] tok \in {"Content-Type", "content-type"} -> "content-type"
      [] tok = "POST" -> "post"
      [] tok = "X-A" -> "x-a"
      [] OTHER -> tok

toLowerCase(s) == [k \in 1..Len(s) |-> LowerToken(s[k])]

\* /^(GET|POST|PUT|PATCH|DELETE|HEAD|OPTIONS)\s+/i.test(trimmed)
IsRequestLine(trimmed) ==
    /\ Len(trimmed) >= 2
    /\ LowerToken(trimmed[1]) \in {"get", "post", "put", "patch", "delete", "head", "options"}
    /\ IsSpace(trimmed[2])

\* trimmed.indexOf(':'), counted from 1; 0 when there is none
IndexOfColon(trimmed) ==
    IF \E k \in 1..Len(trimmed) : trimmed[k] = ":"
    THEN CHOOSE k \in 1..Len(trimmed) :
            trimmed[k] = ":" /\ \A j \in 1..(k - 1) : trimmed[j] # ":"
    ELSE 0

\* headers[key] = value on an object that keeps its keys in insertion order
PutHeader(h, key, value) ==
    IF \E k \in 1..Len(h) : h[k].key = key
    THEN [k \in 1..Len(h) |-> IF h[k].key = key THEN [key |-> key, value |-> value] ELSE h[k]]
    ELSE Append(h, [key |-> key, value |-> value])

\* The body of the loop of parseRawHeaders for one line.  The copy of the
\* workbench (App.tsx) has no content-length test.
ParseHeaderLine(h, line, skipsContentLength) ==
    LET trimmed == Trim(line)
        idx == IndexOfColon(trimmed)
        key == Trim(SubSeq(trimmed, 1, idx - 1))
        value == Trim(SubSeq(trimmed, idx + 1, Len(trimmed)))
    IN  IF trimmed = <<>> THEN h
        ELSE IF IsRequestLine(trimmed) THEN h
        ELSE IF idx = 0 THEN h
        ELSE IF key = <<>> THEN h
        ELSE IF skipsContentLength /\ toLowerCase(key) = <<"content-length">> THEN h
        ELSE PutHeader(h, key, value)

RECURSIVE ParseHeaderLines(_, _, _)
ParseHeaderLines(lines, h, skipsContentLength) ==
    IF lines = <<>> THEN h
    ELSE ParseHeaderLines(Tail(lines), ParseHeaderLine(h, Head(lines), skipsContentLength),
                          skipsContentLength)

\* parseRawHeaders of GraphQLPage.tsx and of the two fuzzers
parseRawHeaders(raw) == ParseHeaderLines(SplitLines(raw), <<>>, TRUE)

\* parseRawHeaders of App.tsx
parseRawHeadersApp(raw) == ParseHeaderLines(SplitLines(raw), <<>>, FALSE)

DefaultContentType == [key |-> <<"Content-Type">>, value |-> <<"application/json">>]

\* (mutant) a merge that adds the default whatever the map holds
mergeAlways(h) == <<DefaultContentType>> \o h

mergeDefaultJsonContentType(h) ==
    IF \E k \in 1..Len(h) : toLowerCase(h[k].key) = <<"content-type">>
    THEN h
    ELSE <<DefaultContentType>> \o h

\* The fuzzer with nothing entered and nothing running.
FuzzerIdle ==
    /\ Mounted /\ Untouched
    /\ url = <<>> /\ useProxy = TRUE /\ variables = EmptyObjectText
    /\ page = "extended" /\ runLimit = 0

InitHeaders ==
    /\ ProxyIdle
    /\ TokensIdle
    /\ ContextIdle
    /\ FuzzerIdle
    /\ headersRaw \in HeaderTexts
    /\ copy \in HeaderCopies
    /\ hpc = "raw"
    /\ headersUser = <<>>
    /\ headers = <<>>
    /\ WorkbenchIdle

\* const headersUser = parseRawHeaders(headersRaw)
ParseHeaders ==
    /\ hpc = "raw"
    /\ hpc' = "parsed"
    /\ headersUser' = IF copy = "workbench" THEN parseRawHeadersApp(headersRaw)
                      ELSE parseRawHeaders(headersRaw)
    /\ UNCHANGED <<headersRaw, copy, headers>>
    /\ UNCHANGED besideHeaders

\* const headers = mergeDefaultJsonContentType(headersUser)
MergeHeaders ==
    /\ hpc = "parsed"
    /\ hpc' = "merged"
    /\ headers' = mergeDefaultJsonContentType(headersUser)
    /\ UNCHANGED <<headersRaw, copy, headersUser>>
    /\ UNCHANGED besideHeaders

NextHeaders == ParseHeaders \/ MergeHeaders

SpecHeaders == InitHeaders /\ [][NextHeaders]_vars

\* ============================================================ workbench
\* Identifiers are sequences of characters; U and D are the upper-case
\* letters of the alphabet used here.
Identifiers == {<<"g", "U">>, <<"d">>}

UpperLetters == <<"A", "B", "C", "D", "E", "F", "G", "H", "I", "J", "K", "L", "M",
                  "N", "O", "P", "Q", "R", "S", "T", "U", "V", "W", "X", "Y", "Z">>
LowerLetters == <<"a", "b", "c", "d", "e", "f", "g", "h", "i", "j", "k", "l", "m",
                  "n", "o", "p", "q", "r", "s", "t", "u", "v", "w", "x", "y", "z">>
DigitChars == {"0", "1", "2", "3", "4", "5", "6", "7", "8", "9"}

IsUpper(c) == \E i \in DOMAIN UpperLetters : UpperLetters[i] = c
IsLowerOrDigit(c) == c \in DigitChars \/ \E i \in DOMAIN LowerLetters : LowerLetters[i] = c
LowerChar(c) ==
    IF IsUpper(c) THEN LowerLetters[CHOOSE i \in DOMAIN UpperLetters : UpperLetters[i] = c]
    ELSE c
LowerAll(w) == [k \in 1..Len(w) |-> LowerChar(w[k])]

\* splitWordsTokenize from the character `s` on: `cur` is the part collected
\* so far (already in lower case), `prev` the character before s, <<>> at a
\* piece's start.  A part ends at a character that is no letter or digit and
\* before an upper-case letter that follows a lower-case letter or digit.
RECURSIVE SplitWordsFrom(_, _, _)
SplitWordsFrom(s, cur, prev) ==
    LET flushed == IF cur = <<>> THEN <<>> ELSE <<cur>>
    IN  IF s = <<>> THEN flushed
        ELSE LET c == Head(s)
             IN  IF ~(IsUpper(c) \/ IsLowerOrDigit(c))
                 THEN flushed \o SplitWordsFrom(Tail(s), <<>>, <<>>)
                 ELSE IF IsUpper(c) /\ prev # <<>> /\ IsLowerOrDigit(prev[1])
                 THEN flushed \o SplitWordsFrom(Tail(s), <<LowerChar(c)>>, <<c>>)
                 ELSE SplitWordsFrom(Tail(s), Append(cur, LowerChar(c)), <<c>>)

splitWordsTokenize(token) == SplitWordsFrom(token, <<>>, <<>>)

\* (mutant) an addWord that leaves out the whole lowercased form
addWordPartsOnly(set, w) ==
    set \cup {splitWordsTokenize(w)[k] : k \in 1..Len(splitWordsTokenize(w))}

addWord(set, w) ==
    IF w = <<>> THEN set
    ELSE set \cup {LowerAll(w)}
             \cup {splitWordsTokenize(w)[k] : k \in 1..Len(splitWordsTokenize(w))}

RECURSIVE AddWords(_, _)
AddWords(set, ws) ==
    IF ws = <<>> THEN set ELSE AddWords(addWord(set, Head(ws)), Tail(ws))

\* A query text is kept as what graphql's parse makes of it: whether it
\* parses, and the names the visitor meets.
NoQuery == [ok |-> FALSE, names |-> <<>>]
Queries == {NoQuery} \cup {[ok |-> TRUE, names |-> <<n>>] : n \in Identifiers}

extractWordsFromGraphQL(q, set) == IF q.ok THEN AddWords(set, q.names) ELSE set

\* A JSON text is kept as whether it parses and the keys and strings that
\* extractWordsFromJson meets in the parsed value.
EmptyJson == [ok |-> TRUE, words |-> <<>>]
NotJson == [ok |-> FALSE, words |-> <<>>]
JsonValues == {EmptyJson, [ok |-> TRUE, words |-> <<<<"d">>>>]}

extractWordsFromJson(value, set) == AddWords(set, value.words)

\* What can be pasted into the raw body: no JSON, or JSON with a query and
\* with or without variables.
PastedTexts ==
    {[json |-> FALSE, query |-> NoQuery, hasVariables |-> FALSE, variables |-> EmptyJson]}
    \cup {[json |-> TRUE, query |-> q, hasVariables |-> b, variables |-> v] :
             q \in Queries, b \in BOOLEAN, v \in JsonValues}

FileTexts == {<<"g", "U", NL, " ", "d">>, <<"d", "\r", NL>>}

InitWorkbench ==
    /\ ProxyIdle
    /\ TokensIdle
    /\ ContextIdle
    /\ FuzzerIdle
    /\ HeadersIdle
    /\ WorkbenchMounted
    /\ pageUrl \in Urls
    /\ pageQuery \in Queries

\* onChange of the raw body textarea
onPasteRaw(text) ==
    /\ IF text.json /\ text.query # NoQuery
       THEN /\ pageQuery' = text.query
            /\ pageVariables' = IF text.hasVariables THEN text.variables ELSE pageVariables
            /\ wordSet' =
                  LET nextSet == extractWordsFromGraphQL(text.query, wordSet)
                  IN  IF text.hasVariables
                      THEN extractWordsFromJson(text.variables, nextSet)
                      ELSE nextSet
       ELSE UNCHANGED <<pageQuery, pageVariables, wordSet>>
    /\ UNCHANGED <<pageUrl, sending, sendCall, reads>>
    /\ UNCHANGED besideWorkbench

\* A click on Send (disabled={!url || sending}): onSend up to its first await.
onSend ==
    /\ pageUrl # <<>> /\ ~sending
    /\ sending' = TRUE
    /\ sendCall' = <<[wordSet |-> wordSet, query |-> pageQuery,
                      variables |-> IF pageVariables.ok THEN pageVariables ELSE EmptyJson]>>
    /\ UNCHANGED <<pageUrl, pageQuery, pageVariables, wordSet, reads>>
    /\ UNCHANGED besideWorkbench

\* The request of onSend is answered and onSend runs to its end: with a body
\* (JSON or not) it rebuilds the wordlist from the set it closed over; after
\* a proxy error it returns, after a failed fetch it lands in catch.
SendSettles(outcome, asJson) ==
    /\ sendCall # <<>>
    /\ IF outcome = "body"
       THEN wordSet' =
               LET next == extractWordsFromJson(sendCall[1].variables,
                              extractWordsFromGraphQL(sendCall[1].query, sendCall[1].wordSet))
               IN  IF asJson.ok THEN extractWordsFromJson(asJson, next) ELSE next
       ELSE UNCHANGED wordSet
    /\ sending' = FALSE
    /\ sendCall' = <<>>
    /\ UNCHANGED <<pageUrl, pageQuery, pageVariables, reads>>
    /\ UNCHANGED besideWorkbench

\* A wordlist file is chosen: reader.readAsText(file)
onImportWordlist(file) ==
    /\ Len(reads) < MaxReads
    /\ reads' = Append(reads, [wordSet |-> wordSet, text |-> file])
    /\ UNCHANGED <<pageUrl, pageQuery, pageVariables, sending, wordSet, sendCall>>
    /\ UNCHANGED besideWorkbench

\* reader.onload of the k-th reader
ReaderLoads(k) ==
    /\ k \in 1..Len(reads)
    /\ wordSet' = AddWords(reads[k].wordSet, parseWordlist(reads[k].text))
    /\ reads' = SubSeq(reads, 1, k - 1) \o SubSeq(reads, k + 1, Len(reads))
    /\ UNCHANGED <<pageUrl, pageQuery, pageVariables, sending, sendCall>>
    /\ UNCHANGED besideWorkbench

onClearWordlist ==
    /\ wordSet' = {}
    /\ UNCHANGED <<pageUrl, pageQuery, pageVariables, sending, sendCall, reads>>
    /\ UNCHANGED besideWorkbench

NextWorkbench ==
    \/ \E text \in PastedTexts : onPasteRaw(text)
    \/ onSend
    \/ \E outcome \in {"body", "proxyerr", "neterr"}, asJson \in JsonValues \cup {NotJson} :
          SendSettles(outcome, asJson)
    \/ \E file \in FileTexts : onImportWordlist(file)
    \/ \E k \in 1..MaxReads : ReaderLoads(k)
    \/ onClearWordlist

SpecWorkbench == InitWorkbench /\ [][NextWorkbench]_vars

\* ============================================================ tokens
\* The words given to addWord: every text of up to MaxWordLen characters
\* over a small alphabet, and the two of the README.
TokenAlphabet == {"a", "B", "1", "_"}

RECURSIVE WordsOfLen(_)
WordsOfLen(n) ==
    IF n = 0 THEN {<<>>}
    ELSE {Append(w, c) : w \in WordsOfLen(n - 1), c \in TokenAlphabet}

GetUserData == <<"g", "e", "t", "U", "s", "e", "r", "D", "a", "t", "a">>
UserProfile == <<"u", "s", "e", "r", "_", "p", "r", "o", "f", "i", "l", "e">>

Words == UNION {WordsOfLen(n) : n \in 0..MaxWordLen} \cup {GetUserData, UserProfile}

InitTokens ==
    /\ ContextIdle
    /\ FuzzerIdle
    /\ HeadersIdle
    /\ WorkbenchIdle
    /\ ProxyIdle
    /\ addedWord \in Words
    /\ tokenSet \in {{}, {<<"z">>}}
    /\ added = FALSE

AddWord ==
    /\ ~added
    /\ tokenSet' = addWord(tokenSet, addedWord)
    /\ added' = TRUE
    /\ UNCHANGED addedWord
    /\ UNCHANGED besideTokens

NextTokens == AddWord

SpecTokens == InitTokens /\ [][NextTokens]_vars

\* ========================================================= FuzzerContext
DefaultConfig ==
    [url |-> <<>>, headersRaw |-> <<>>, rawBody |-> <<>>, query |-> <<>>,
     variables |-> EmptyObjectText, useProxy |-> TRUE, proxyUrl |-> DefaultProxyUrl]

\* the configs handed to setConfig
FuzzerConfigs ==
    {[DefaultConfig EXCEPT !.url = u, !.useProxy = b, !.variables = v] :
        u \in Urls, b \in BOOLEAN, v \in {EmptyObjectText, <<>>}}

\* (mutant) a state kept once for the module instead of once per provider
SetStateShared(configs, p, c) == [q \in DOMAIN configs |-> c]

\* setConfig of provider p: the state setter of that provider's useState
SetState(configs, p, c) == [configs EXCEPT ![p] = c]

\* every consumer renders again with the value of its provider
Rendered(cs, configs) ==
    [k \in DOMAIN cs |-> [cs[k] EXCEPT !.seen = configs[cs[k].provider]]]

InitContext ==
    /\ FuzzerIdle
    /\ HeadersIdle
    /\ WorkbenchIdle
    /\ ProxyIdle
    /\ TokensIdle
    /\ ContextIdle

\* a FuzzerProvider mounts: useState with the default config
MountProvider ==
    /\ Len(providerConfig) < MaxProviders
    /\ providerConfig' = Append(providerConfig, DefaultConfig)
    /\ UNCHANGED <<touched, lastSet, consumers>>
    /\ UNCHANGED besideContext

\* a component under provider p mounts and calls useFuzzerConfig
MountConsumer(p) ==
    /\ p \in 1..Len(providerConfig)
    /\ Len(consumers) < MaxConsumers
    /\ consumers' = Append(consumers, [provider |-> p, seen |-> providerConfig[p]])
    /\ UNCHANGED <<providerConfig, touched, lastSet>>
    /\ UNCHANGED besideContext

\* consumer k calls the setConfig it got, and React renders again
setConfig(k, c) ==
    /\ k \in 1..Len(consumers)
    /\ providerConfig' = SetState(providerConfig, consumers[k].provider, c)
    /\ consumers' = Rendered(consumers, providerConfig')
    /\ touched' = touched \cup {consumers[k].provider}
    /\ lastSet' = <<[provider |-> consumers[k].provider, config |-> c]>>
    /\ UNCHANGED besideContext

NextContext ==
    \/ MountProvider
    \/ \E p \in 1..MaxProviders : MountConsumer(p)
    \/ \E k \in 1..MaxConsumers, c \in FuzzerConfigs : setConfig(k, c)

SpecContext == InitContext /\ [][NextContext]_vars

\* ================================================================ proxy
\* Two files hold the server: server/proxy.mjs, and the one with debug
\* logging and an outbound timeout.
ServerFiles == {"proxy.mjs", "debug"}

Methods == {"OPTIONS", "GET", "POST"}
Paths == {"/forward", "/other"}

\* A request body, by what JSON.parse and new URL make of it: no JSON, JSON
\* without url and targetUrl, a url that is no URL, a url that is one.
RawBodies == {"notjson", "nourl", "badurl", "goodurl"}

TargetStatuses == {0, 199, 200, 299, 300, 404}

NoReplyBody == <<>>

ErrorBody(message) == [error |-> message]

\* what the catch block of a server file sends
CaughtBody(file, message) ==
    IF file = "debug"
    THEN [error |-> message, isError |-> TRUE, status |-> 0,
          statusText |-> "Proxy Error", headers |-> <<>>, body |-> ""]
    ELSE [error |-> message]

\* what forward resolves with when the target's response has ended
Envelope(file, status) ==
    IF file = "debug"
    THEN [status |-> status, statusText |-> "", headers |-> <<>>, body |-> "text",
          isError |-> (status < 200 \/ status >= 300)]
    ELSE [status |-> status, statusText |-> "", headers |-> <<>>, body |-> "text"]

Reply(code, body) == [code |-> code, body |-> body]

\* the handler's path for a request: which early reply it sends, or "try"
RouteAnyPath(method, path) ==
    IF method = "OPTIONS" THEN "204"
    ELSE IF method # "POST" THEN "405"
    ELSE "try"

Route(method, path) ==
    IF method = "OPTIONS" THEN "204"
    ELSE IF method # "POST" THEN "405"
    ELSE IF path # "/forward" THEN "404"
    ELSE "try"

\* The awaited promise of an exchange settles: the handler goes on once, with
\* res.end of `reply`; settling a settled promise does nothing.
Settle(ex, reply) ==
    IF ex.settled THEN ex
    ELSE [ex EXCEPT !.settled = TRUE, !.phase = "done", !.replies = Append(@, reply)]

InitProxy ==
    /\ TokensIdle
    /\ ContextIdle
    /\ FuzzerIdle
    /\ HeadersIdle
    /\ WorkbenchIdle
    /\ serverFile \in ServerFiles
    /\ exchanges = <<>>

\* A request arrives: the handler up to its first await.
Receive(method, path, raw) ==
    /\ Len(exchanges) < MaxProxyRequests
    /\ LET route == Route(method, path)
           ex == [method |-> method, path |-> path, raw |-> raw,
                  phase |-> "reading", settled |-> FALSE, outbound |-> "none",
                  replies |-> <<>>]
       IN  exchanges' = Append(exchanges,
              CASE route = "204" -> [ex EXCEPT !.phase = "done", !.replies = <<Reply(204, NoReplyBody)>>]
                [] route = "405" -> [ex EXCEPT !.phase = "done", !.replies = <<Reply(405, ErrorBody("Method Not Allowed"))>>]
                [] route = "404" -> [ex EXCEPT !.phase = "done", !.replies = <<Reply(404, ErrorBody("Not Found"))>>]
                [] OTHER -> ex)
    /\ UNCHANGED serverFile
    /\ UNCHANGED besideProxy

\* readBody resolves: the handler from JSON.parse to await forward(...).
BodyRead(k) ==
    /\ k \in 1..Len(exchanges)
    /\ exchanges[k].phase = "reading"
    /\ LET ex == exchanges[k]
       IN  exchanges' = [exchanges EXCEPT ![k] =
              CASE ex.raw = "notjson" -> Settle(ex, Reply(500, CaughtBody(serverFile, "Unexpected token")))
                [] ex.raw = "nourl" -> Settle(ex, Reply(500, CaughtBody(serverFile, "Missing url")))
                [] ex.raw = "badurl" -> Settle(ex, Reply(500, CaughtBody(serverFile, "Invalid URL")))
                [] OTHER -> [ex EXCEPT !.phase = "forwarding", !.outbound = "open"]]
    /\ UNCHANGED serverFile
    /\ UNCHANGED besideProxy

\* readBody rejects: the inbound request reports an error
BodyFails(k) ==
    /\ k \in 1..Len(exchanges)
    /\ exchanges[k].phase = "reading"
    /\ exchanges' = [exchanges EXCEPT ![k] =
          Settle(exchanges[k], Reply(500, CaughtBody(serverFile, "aborted")))]
    /\ UNCHANGED serverFile
    /\ UNCHANGED besideProxy

\* res 'end' of the target's response
TargetResponds(k, status) ==
    /\ k \in 1..Len(exchanges)
    /\ exchanges[k].outbound = "open"
    /\ exchanges' = [exchanges EXCEPT ![k] =
          Settle([exchanges[k] EXCEPT !.outbound = "closed"],
                 Reply(200, Envelope(serverFile, status)))]
    /\ UNCHANGED serverFile
    /\ UNCHANGED besideProxy

\* req 'error': the connection fails, or the destroyed request hangs up
RequestError(k) ==
    /\ k \in 1..Len(exchanges)
    /\ exchanges[k].outbound \in {"open", "destroyed"}
    /\ exchanges' = [exchanges EXCEPT ![k] =
          Settle([exchanges[k] EXCEPT !.outbound = "closed"],
                 Reply(500, CaughtBody(serverFile, "connect ECONNREFUSED")))]
    /\ UNCHANGED serverFile
    /\ UNCHANGED besideProxy

\* req 'timeout': only the file that passes a timeout to the request gets it
RequestTimeout(k) ==
    /\ serverFile = "debug"
    /\ k \in 1..Len(exchanges)
    /\ exchanges[k].outbound = "open"
    /\ exchanges' = [exchanges EXCEPT ![k] =
          Settle([exchanges[k] EXCEPT !.outbound = "destroyed"],
                 Reply(500, CaughtBody(serverFile, "Request timeout after 30000ms")))]
    /\ UNCHANGED serverFile
    /\ UNCHANGED besideProxy

NextProxy ==
    \/ \E method \in Methods, path \in Paths, raw \in RawBodies : Receive(method, path, raw)
    \/ \E k \in 1..MaxProxyRequests : BodyRead(k)
    \/ \E k \in 1..MaxProxyRequests : BodyFails(k)
    \/ \E k \in 1..MaxProxyRequests, status \in TargetStatuses : TargetResponds(k, status)
    \/ \E k \in 1..MaxProxyRequests : RequestError(k)
    \/ \E k \in 1..MaxProxyRequests : RequestTimeout(k)

SpecProxy == InitProxy /\ [][NextProxy]_vars

\* The same behaviours with what the server's own code and Node guarantee: the
\* body of an inbound request ends or fails, and the timer of an outbound
\* request that was given a timeout fires.  The target is free to stay silent.
SpecProxyLive ==
    /\ InitProxy
    /\ [][NextProxy]_vars
    /\ WF_vars(\E k \in 1..MaxProxyRequests : BodyRead(k) \/ BodyFails(k))
    /\ WF_vars(\E k \in 1..MaxProxyRequests : RequestTimeout(k))

\* ================================================================ claims
RunIds == 1..Len(runs)

\* The rows of `res` that run r produced.
RowsOf(res, r) == {res[k] : k \in {j \in 1..Len(res) : res[j].run = r}}

\* What the table shows of a row.
Shown(row) == <<row.requestNum, row.wordlistItem, row.statusCode, row.contentLength,
                row.requestBody>>

Answered(req) == req.state \in {"ok", "proxyerr", "neterr", "threw"}

\* The step resumes the loop of run r after a settled await.
Resumes(r) == Resumable(runs[r]) /\ runs'[r] # runs[r]

\* C1 (as claimed): once the abort signal of a run has fired, no step adds a
\* row of that run to the displayed results, in sequential or in batch mode.
C1_NoRowAfterAbort ==
    [][\A r \in RunIds :
          runs[r].controller \in aborted => RowsOf(results', r) \subseteq RowsOf(results, r)]_vars

\* C1 (amended): once the abort signal of a run has fired, none of its requests
\* is in flight any more, and that run adds no row for a request that had not
\* been answered when the signal fired: a sequential run and the basic fuzzer
\* add no row at all, a batch run (threads > 1) can only add rows of requests
\* answered before (those of its result map and the answered ones of the
\* batch it was awaiting).
C1_AfterAbortOnlyAnsweredBatchRows ==
    [][\A r \in RunIds :
          runs[r].controller \in aborted =>
             /\ \A k \in 1..Len(runs[r].reqs) : runs[r].reqs[k].state # "inflight"
             /\ \A row \in RowsOf(results', r) \ RowsOf(results, r) :
                   /\ runs[r].page = "extended" /\ runs[r].threads > 1
                   /\ \/ row \in runs[r].resultMap
                      \/ \E k \in 1..Len(runs[r].reqs) :
                            /\ runs[r].reqs[k].requestNum = row.requestNum
                            /\ Answered(runs[r].reqs[k])]_vars

\* C1 witness: a batch run stopped during its first batch shows the one row
\* that had been answered, beside the request that was aborted.
C1_Witness ==
    \E r \in RunIds :
        /\ runs[r].controller \in aborted
        /\ runs[r].threads > 1 /\ runs[r].pc = "delay"
        /\ runs[r].i = runs[r].threads /\ runs[r].processedCount = 1
        /\ RowsOf(results, r) # {}

\* C2 (as claimed): from the moment the abort signal of the latest run has
\* fired until the next Start, no displayed row is removed or altered.
C2_StopKeepsRows ==
    [][(/\ runs # <<>>
        /\ runs[Len(runs)].controller \in aborted
        /\ Len(runs') = Len(runs))
       => \A k \in 1..Len(results) :
             \E j \in 1..Len(results') : Shown(results'[j]) = Shown(results[k])]_vars

\* C3 (as claimed): every call of sendSingleRequest reaches fetch, with
\* variables {} when the variables text does not parse, and shows no row for
\* the parse failure.
C3_MalformedVariablesStillSent ==
    /\ \A r \in RunIds : \A k \in 1..Len(runs[r].reqs) :
          /\ runs[r].reqs[k].fetchUrl # <<>>
          /\ runs[r].page = "extended" =>
                /\ runs[r].reqs[k].requestBody # <<>>
                /\ ~JsonParseVariables(runs[r].c.variables).ok =>
                      runs[r].reqs[k].requestBody[1].variables = EmptyObjectText
    /\ \A k \in 1..Len(results) : results[k].statusCode # "Error: Unexpected token"

RECURSIVE Flatten(_)
Flatten(batches) ==
    IF batches = <<>> THEN <<>> ELSE Head(batches) \o Flatten(Tail(batches))

\* C4: a batch run (threads = N > 1) calls sendSingleRequest in batches of at
\* most N that follow the wordlist without a gap or a repeat, and a run that
\* ends without having been stopped has made exactly one call for each of the
\* L wordlist positions, in order.
C4_BatchesCoverWordlistOnce ==
    [][\A r \in RunIds :
          (runs[r].page = "extended" /\ runs[r].threads > 1 /\ runs[r].pc # "done") =>
             LET all == Flatten(runs[r].calls)
             IN  /\ \A b \in 1..Len(runs[r].calls) :
                       /\ Len(runs[r].calls[b]) <= runs[r].threads
                       /\ b < Len(runs[r].calls) =>
                             Len(runs[r].calls[b]) = runs[r].threads
                 /\ Len(all) <= Len(runs[r].wordlist)
                 /\ \A n \in 1..Len(all) :
                       all[n] = [requestNum |-> n, wordlistItem |-> runs[r].wordlist[n]]
                 /\ (runs'[r].pc = "done" /\ runs[r].controller \notin aborted) =>
                       Len(all) = Len(runs[r].wordlist)]_vars

\* C4 witness: a batch run over three words with two threads is in its second
\* batch, which holds the third word alone.
C4_Witness ==
    \E r \in RunIds :
        /\ runs[r].threads = 2 /\ Len(runs[r].wordlist) = 3
        /\ Len(runs[r].calls) = 2 /\ Len(runs[r].calls[2]) = 1
        /\ runs[r].controller \notin aborted

\* C5 (as claimed): the displayed results are in strictly ascending
\* request-number order in every state.
C5_ResultsStrictlyAscending ==
    \A k \in 1..(Len(results) - 1) : results[k].requestNum < results[k + 1].requestNum

\* C6 (as claimed): when the loop resumes after a request that failed with an
\* error other than AbortError, the results show its row with an "Error: "
\* status and content length "0", and the loop exits at that step only if no
\* wordlist item is left or the run was stopped.
C6_FailureRecordedAndLoopGoesOn ==
    [][\A r \in RunIds :
          Resumes(r) =>
             \A k \in 1..Len(runs[r].reqs) :
                runs[r].reqs[k].state \in {"neterr", "threw"} =>
                   /\ \E j \in 1..Len(results') :
                         /\ results'[j].run = r
                         /\ results'[j].requestNum = runs[r].reqs[k].requestNum
                         /\ results'[j].statusCode \in
                               {"Error: Failed to fetch", "Error: Unexpected token"}
                         /\ results'[j].contentLength = "0"
                   /\ runs'[r].pc = "done" =>
                         \/ runs[r].controller \in aborted
                         \/ /\ runs[r].page = "extended"
                            /\ runs[r].reqs[Len(runs[r].reqs)].requestNum
                                  >= Len(runs[r].wordlist)]_vars

\* C7: when the loop resumes after a request rejected with AbortError, no row
\* of that request is shown; a sequential run (and the basic fuzzer) exits its
\* loop in that very step; a run whose abort signal has fired calls
\* sendSingleRequest no more; and the step in which such a run exits leaves
\* the running flag false.
C7_AbortErrorEndsRunWithoutRow ==
    [][\A r \in RunIds :
          /\ Resumes(r) =>
                \A k \in 1..Len(runs[r].reqs) :
                   runs[r].reqs[k].state = "aborted" =>
                      /\ \A j \in 1..Len(results') :
                            ~(results'[j].run = r
                              /\ results'[j].requestNum = runs[r].reqs[k].requestNum)
                      /\ (runs[r].page = "basic" \/ runs[r].threads = 1) =>
                            /\ runs'[r].pc = "done"
                            /\ results' = results
          /\ runs[r].controller \in aborted =>
                /\ runs'[r].pc # "done" => runs'[r].calls = runs[r].calls
                /\ (runs[r].pc # "done" /\ runs'[r].pc = "done") => ~isRunning']_vars

\* C7 witness: a sequential run without delay has been stopped, which can only
\* have hit its request in flight, and its loop has exited.
C7_Witness ==
    /\ page = "extended" /\ threads = 1 /\ delayMs = 0
    /\ ~isRunning /\ abortControllerRef = NoController
    /\ \E r \in RunIds : runs[r].pc = "done" /\ runs[r].controller \in aborted

\* C8 (as claimed): whenever the page can render (no microtask is due), the
\* running flag is true exactly when the loop of some run has not yet exited.
C8_RunningFlagTracksLoop ==
    NoMicrotask => (isRunning <=> \E r \in RunIds : runs[r].pc # "done")

\* C9 (as claimed): a step that starts a run empties the results, resets the
\* progress counter, shows the results tab and installs a controller that no
\* earlier run had and whose signal has not fired; and every row displayed
\* belongs to the run started last.
C9_StartClearsAndOnlyLatestRunShows ==
    [][/\ Len(runs') > Len(runs) =>
             /\ results' = <<>>
             /\ page = "extended" => progressCount' = 0 /\ activeTab' = "results"
             /\ abortControllerRef' # NoController
             /\ abortControllerRef' \notin aborted'
             /\ \A r \in RunIds : runs[r].controller # abortControllerRef'
       /\ \A k \in 1..Len(results') : results'[k].run = Len(runs')]_vars

\* C10: a run of the extended fuzzer begins, and the running flag turns true,
\* only in a step taken from a state with a non-empty target URL, a non-empty
\* parsed wordlist and a replacement marker.
C10_StartNeedsUrlWordlistMarker ==
    [][(Len(runs') > Len(runs) \/ (isRunning' /\ ~isRunning)) =>
          /\ url # <<>>
          /\ parseWordlist(wordlistText) # <<>>
          /\ replacementMarker # <<>>
          /\ ~isRunning]_vars

\* C10 witness: the form was filled in (wordlist typed, text selected and
\* marked) on a page with a target URL, and Start began a run that is under way.
C10_Witness ==
    /\ isRunning /\ Len(runs) = 1 /\ runs[1].pc # "done"
    /\ url # <<>>
    /\ runs[1].wordlist = parseWordlist(wordlistText) /\ runs[1].wordlist # <<>>
    /\ runs[1].c.replacementMarker # <<>>

\* The query of a request that reached fetch.
OutgoingQuery(req) == req.requestBody[1].query

\* C11: the query of every request that reached fetch is the base query the
\* run captured with the span [from, to) of the marker replaced by the word
\* of that request, whatever was sent before it; so two requests for the same
\* word over the same base query and marker, in one run or in two, carry the
\* same query.
C11_SplicesIntoBaseQuery ==
    \A r \in RunIds : runs[r].page = "extended" =>
        \A k \in 1..Len(runs[r].reqs) :
            LET req == runs[r].reqs[k]
                base == runs[r].c.query
                m == runs[r].c.replacementMarker[1]
            IN  req.requestBody # <<>> =>
                  /\ OutgoingQuery(req) =
                        SubSeq(base, 1, m.from) \o req.wordlistItem
                            \o SubSeq(base, m.to + 1, Len(base))
                  /\ \A r2 \in RunIds : \A k2 \in 1..Len(runs[r2].reqs) :
                        (/\ runs[r2].page = "extended"
                         /\ runs[r2].reqs[k2].requestBody # <<>>
                         /\ runs[r2].c.query = base
                         /\ runs[r2].c.replacementMarker = runs[r].c.replacementMarker
                         /\ runs[r2].reqs[k2].wordlistItem = req.wordlistItem)
                        => OutgoingQuery(runs[r2].reqs[k2]) = OutgoingQuery(req)

\* C11 witness: the second run over the wordlist has sent its second word,
\* spliced into the base query "{u}" and not into the "{a}" sent before it.
C11_Witness ==
    /\ Len(runs) >= 2
    /\ \E k \in 1..Len(runs[2].reqs) :
          /\ runs[2].reqs[k].requestNum = 2
          /\ runs[2].reqs[k].wordlistItem = <<"b">>
          /\ runs[2].reqs[k].requestBody # <<>>
          /\ OutgoingQuery(runs[2].reqs[k]) = <<"{", "b", "}">>

\* C12 (as claimed): when a run of the extended fuzzer that was not stopped
\* exits its loop, and every request was answered by a response, the results
\* are exactly the L rows 1..L, row k with word k and the body sent for it.
C12_UnstoppedRunShowsAllRows ==
    [][\A r \in RunIds :
          (/\ runs[r].page = "extended"
           /\ runs[r].pc # "done" /\ runs'[r].pc = "done"
           /\ runs[r].controller \notin aborted
           /\ faults' = 0
           /\ JsonParseVariables(runs[r].c.variables).ok)
          => /\ Len(results') = Len(runs[r].wordlist)
             /\ \A k \in 1..Len(results') :
                   /\ results'[k].requestNum = k
                   /\ results'[k].wordlistItem = runs[r].wordlist[k]
                   /\ results'[k].requestBody =
                         <<[query |-> replaceTextInQuery(runs[r].c.query,
                                         runs[r].c.replacementMarker[1],
                                         runs[r].wordlist[k]),
                            variables |-> EmptyObjectText]>>]_vars

\* C13 (as claimed): when the loop resumes after a request whose proxy reply
\* carried an error, the results show its row with the status "Proxy Error: "
\* and the error text and content length "0", and the loop exits at that
\* step only if no wordlist item is left or the run was stopped.
C13_ProxyErrorRecordedAndLoopGoesOn ==
    [][\A r \in RunIds :
          Resumes(r) =>
             \A k \in 1..Len(runs[r].reqs) :
                runs[r].reqs[k].state = "proxyerr" =>
                   /\ \E j \in 1..Len(results') :
                         /\ results'[j].run = r
                         /\ results'[j].requestNum = runs[r].reqs[k].requestNum
                         /\ results'[j].statusCode = "Proxy Error: Connection refused"
                         /\ results'[j].contentLength = "0"
                   /\ runs'[r].pc = "done" =>
                         \/ runs[r].controller \in aborted
                         \/ /\ runs[r].page = "extended"
                            /\ runs[r].reqs[Len(runs[r].reqs)].requestNum
                                  >= Len(runs[r].wordlist)]_vars

\* The positions of a header map whose key is `name` in some letter case.
KeysNamed(h, name) == {k \in 1..Len(h) : toLowerCase(h[k].key) = <<name>>}

Entries(h) == {h[k] : k \in 1..Len(h)}

\* C15 (as claimed): whatever the raw header text and whichever copy of
\* parseRawHeaders parsed it, the map has no content-length key in any letter
\* case and no empty key.
C15_NoContentLengthNoEmptyKey ==
    hpc # "raw" =>
        /\ KeysNamed(headersUser, "content-length") = {}
        /\ \A k \in 1..Len(headersUser) : headersUser[k].key # <<>>

\* C16 (as claimed): the merge of a map without a content-type key is that
\* map plus the one entry Content-Type: application/json, the merge of a map
\* with such a key is the map itself, and the result never holds two
\* content-type keys.
C16_MergeNeverTwoContentTypes ==
    hpc = "merged" =>
        /\ IF KeysNamed(headersUser, "content-type") = {}
           THEN /\ Entries(headers) = Entries(headersUser) \cup {DefaultContentType}
                /\ Len(headers) = Len(headersUser) + 1
           ELSE headers = headersUser
        /\ Cardinality(KeysNamed(headers, "content-type")) <= 1

\* C16 (amended): the merge of a map without a content-type key is that map
\* plus the one entry Content-Type: application/json, and the merge of a map
\* with such a key is the map itself; so the merge never adds a content-type
\* key to a map that has one, and the result holds as many content-type keys
\* as the map it was given, or one if that had none.
C16_MergeAddsOnlyWhenMissing ==
    hpc = "merged" =>
        /\ IF KeysNamed(headersUser, "content-type") = {}
           THEN /\ Entries(headers) = Entries(headersUser) \cup {DefaultContentType}
                /\ Len(headers) = Len(headersUser) + 1
                /\ Cardinality(KeysNamed(headers, "content-type")) = 1
           ELSE /\ headers = headersUser
                /\ Cardinality(KeysNamed(headers, "content-type")) =
                      Cardinality(KeysNamed(headersUser, "content-type"))
        /\ \A k \in 1..Len(headersUser) : \E j \in 1..Len(headers) : headers[j] = headersUser[k]

\* C16 witness: a map with an X-A entry and no content-type key was merged
\* and came out with the default entry beside it.
C16_Witness ==
    /\ hpc = "merged"
    /\ KeysNamed(headersUser, "x-a") # {}
    /\ KeysNamed(headersUser, "content-type") = {}
    /\ Len(headers) = Len(headersUser) + 1
    /\ headers[1] = DefaultContentType

\* C14 (as claimed): no step other than Clear takes a token out of the
\* session wordlist, whatever paste, send or import is under way.
C14_WordlistOnlyGrows ==
    [][(wordSet' = {} /\ UNCHANGED <<sendCall, reads, pageQuery>>)
       \/ wordSet \subseteq wordSet']_vars

\* C17: OPTIONS is answered 204, any other method but POST 405 with a JSON
\* error body, POST to another path than /forward 404 with a JSON error body,
\* and only POST /forward has an outbound request.
C17_RoutesByMethodAndPath ==
    \A k \in 1..Len(exchanges) :
        LET ex == exchanges[k]
        IN  /\ ex.method = "OPTIONS" => ex.replies = <<Reply(204, NoReplyBody)>>
            /\ ex.method \notin {"OPTIONS", "POST"} =>
                  /\ Len(ex.replies) = 1
                  /\ ex.replies[1].code = 405
                  /\ DOMAIN ex.replies[1].body = {"error"}
            /\ ex.method = "POST" /\ ex.path # "/forward" =>
                  /\ Len(ex.replies) = 1
                  /\ ex.replies[1].code = 404
                  /\ DOMAIN ex.replies[1].body = {"error"}
            /\ ex.outbound # "none" => ex.method = "POST" /\ ex.path = "/forward"

C17_Witness ==
    /\ \E k \in 1..Len(exchanges) :
          exchanges[k].method = "POST" /\ exchanges[k].path = "/other"
          /\ exchanges[k].replies # <<>>
    /\ \E k \in 1..Len(exchanges) : exchanges[k].outbound = "closed"

\* C18 (as claimed): every 500 reply of the proxy carries error, isError
\* true, status 0, statusText "Proxy Error", empty headers and an empty body.
C18_FailureRepliesWithFullEnvelope ==
    \A k \in 1..Len(exchanges) :
        \A j \in 1..Len(exchanges[k].replies) :
            exchanges[k].replies[j].code = 500 =>
                \E message \in {"Unexpected token", "Missing url", "Invalid URL", "aborted",
                                "connect ECONNREFUSED", "Request timeout after 30000ms"} :
                    exchanges[k].replies[j].body =
                        [error |-> message, isError |-> TRUE, status |-> 0,
                         statusText |-> "Proxy Error", headers |-> <<>>, body |-> ""]

\* C19 (as claimed): a 200 reply of the proxy carries the target's status and
\* an isError that is true exactly for a status outside 200..299.
C19_EnvelopeFlagsNon2xx ==
    \A k \in 1..Len(exchanges) :
        \A j \in 1..Len(exchanges[k].replies) :
            exchanges[k].replies[j].code = 200 =>
                /\ "isError" \in DOMAIN exchanges[k].replies[j].body
                /\ exchanges[k].replies[j].body.isError =
                      (exchanges[k].replies[j].body.status \notin 200..299)

\* C20 (as claimed): every fuzz request has made its one fetch call, to the
\* proxy URL when "use proxy" is set and to the target URL when it is not.
C20_OneFetchPerRequest ==
    \A r \in RunIds : \A k \in 1..Len(runs[r].reqs) :
        runs[r].page = "extended" =>
            runs[r].reqs[k].fetchUrl =
                IF runs[r].c.useProxy THEN runs[r].c.proxyUrl ELSE runs[r].c.url

\* C21: addWord inserts the lowercased whole word and each lowercased part
\* between camelCase boundaries and characters that are no letters or digits;
\* getUserData gives get, user, data, getuserdata; user_profile gives user,
\* profile, user_profile; every token is lowercase and not empty.
Concat(a, b) == a \o b

RECURSIVE Joined(_)
Joined(parts) == IF parts = <<>> THEN <<>> ELSE Concat(Head(parts), Joined(Tail(parts)))

LettersAndDigits(w) == SelectSeq(w, LAMBDA c : IsUpper(c) \/ IsLowerOrDigit(c))

C21_AddWordTokens ==
    added =>
        /\ addedWord # <<>> => LowerAll(addedWord) \in tokenSet
        /\ \A t \in tokenSet : t # <<>> /\ \A k \in 1..Len(t) : ~IsUpper(t[k])
        /\ \A t \in tokenSet \ {<<"z">>, LowerAll(addedWord)} :
              /\ \A k \in 1..Len(t) : IsLowerOrDigit(t[k])
              /\ \E i \in 1..Len(addedWord) :
                    /\ i + Len(t) - 1 <= Len(addedWord)
                    /\ LowerAll(SubSeq(addedWord, i, i + Len(t) - 1)) = t
                    /\ i > 1 => (~IsLowerOrDigit(addedWord[i - 1]) \/ IsUpper(addedWord[i]))
                    /\ i + Len(t) <= Len(addedWord) =>
                          \/ ~(IsUpper(addedWord[i + Len(t)]) \/ IsLowerOrDigit(addedWord[i + Len(t)]))
                          \/ IsUpper(addedWord[i + Len(t)])
        /\ Joined(splitWordsTokenize(addedWord)) = LowerAll(LettersAndDigits(addedWord))
        /\ \A k \in 1..Len(splitWordsTokenize(addedWord)) :
              splitWordsTokenize(addedWord)[k] \in tokenSet
        /\ addedWord = GetUserData =>
              tokenSet \ {<<"z">>} = {<<"g", "e", "t">>, <<"u", "s", "e", "r">>, <<"d", "a", "t", "a">>,
                                      <<"g", "e", "t", "u", "s", "e", "r", "d", "a", "t", "a">>}
        /\ addedWord = UserProfile =>
              tokenSet \ {<<"z">>} = {<<"u", "s", "e", "r">>, <<"p", "r", "o", "f", "i", "l", "e">>,
                                      <<"u", "s", "e", "r", "_", "p", "r", "o", "f", "i", "l", "e">>}

C21_Witness ==
    /\ added
    /\ addedWord = GetUserData
    /\ <<"u", "s", "e", "r">> \in tokenSet

InFlight(run) == Cardinality({k \in 1..Len(run.reqs) : run.reqs[k].state = "inflight"})

RECURSIVE Outstanding(_)
Outstanding(r) == IF r = 0 THEN 0 ELSE InFlight(runs[r]) + Outstanding(r - 1)

C23_AtMostThreadsOutstanding == Outstanding(Len(runs)) <= threads

\* C24: a batch run dispatches a further batch only in a step before which
\* every request of its previous batch had settled and, when a delay is
\* configured, the run was waiting in the delay that followed that batch.
C24_BatchJoinBarrier ==
    [][\A r \in 1..Len(runs) :
          (/\ r <= Len(runs')
           /\ runs[r].page = "extended" /\ runs[r].threads > 1
           /\ Len(runs'[r].calls) > Len(runs[r].calls))
          => /\ Len(runs[r].calls) >= 1
             /\ \A k \in 1..Len(runs[r].reqs) : runs[r].reqs[k].state # "inflight"
             /\ runs[r].delayMs > 0 => runs[r].pc = "delay" /\ runs[r].reqs = <<>>
             /\ runs[r].delayMs = 0 => runs[r].pc = "await" /\ runs[r].reqs # <<>>]_vars

C24_Witness ==
    \E r \in 1..Len(runs) :
        /\ runs[r].page = "extended" /\ runs[r].threads > 1 /\ runs[r].delayMs > 0
        /\ Len(runs[r].calls) = 2
        /\ \E k \in 1..Len(runs[r].reqs) : runs[r].reqs[k].state = "inflight"

\* C25 (as claimed): when a batch run resumes after the join of a batch, the
\* displayed results are exactly the records of the requests of the run that
\* completed so far, also when a request of the batch was aborted.
C25_JoinedBatchShowsAllCompleted ==
    [][\A r \in 1..Len(runs) :
          (/\ runs[r].page = "extended" /\ runs[r].threads > 1
           /\ Resumable(runs[r])
           /\ runs'[r] # runs[r])
          => {results'[j] : j \in 1..Len(results')}
                = runs[r].resultMap
                  \cup {FuzzResult(runs[r].reqs[k], r) :
                           k \in {n \in 1..Len(runs[r].reqs) : runs[r].reqs[n].state # "aborted"}}]_vars

\* C26 (as claimed): while a replacement marker is set, the query text
\* between its offsets is the text recorded in the marker.
C26_MarkerCoversMarkedText ==
    replacementMarker # <<>> =>
        /\ replacementMarker[1].to <= Len(query)
        /\ SubSeq(query, replacementMarker[1].from + 1, replacementMarker[1].to)
              = replacementMarker[1].text

\* C27 (as claimed): at most one call of startFuzzing has a loop that has not
\* exited yet.
C27_AtMostOneRunInProgress ==
    Cardinality({r \in 1..Len(runs) : runs[r].pc # "done"}) <= 1

\* C28 (as claimed): while a run that was not stopped is in progress, the
\* shared handle is the controller that run created and the running flag is
\* true.
C28_HandleBelongsToRunInProgress ==
    \A r \in 1..Len(runs) :
        (runs[r].pc # "done" /\ runs[r].controller \notin aborted)
        => abortControllerRef = runs[r].controller /\ isRunning

\* C29: under the browser's scheduling and with every request in flight
\* settling, every run of the extended fuzzer reaches the end of startFuzzing,
\* whose finally block leaves the running flag false and the handle cleared.
C29_RunEventuallyEnds ==
    \A r \in 1..MaxRuns :
        (Len(runs) >= r /\ page = "extended")
        ~> (/\ Len(runs) >= r
            /\ runs[r].pc = "done"
            /\ ~isRunning
            /\ abortControllerRef = NoController)

C29_Witness ==
    /\ page = "extended"
    /\ Len(runs) = 1
    /\ runs[1].pc = "done"
    /\ aborted = {}
    /\ Len(results) = 3
    /\ ~isRunning /\ abortControllerRef = NoController

\* C30 (as claimed): no request the proxy received ever has two replies, and
\* each of them comes to have its one reply.
C30_ExactlyOneReply ==
    /\ [](\A k \in 1..Len(exchanges) : Len(exchanges[k].replies) <= 1)
    /\ \A k \in 1..MaxProxyRequests :
          (Len(exchanges) >= k)
          ~> (Len(exchanges) >= k /\ Len(exchanges[k].replies) = 1)

====
